---------------------------- MODULE Spec2Model ----------------------------
(***************************************************************************)
(* A model of createSimpleStore (src/src/SimpleStore.ts): one store, the   *)
(* promises handed to it, the awaiter promises it manufactures, and its    *)
(* subscribers.  JavaScript values are denoted by strings; promise objects *)
(* by records [kind, id].                                                  *)
(***************************************************************************)
EXTENDS Integers, Sequences, FiniteSets, TLC

\* Bounds of the model.
MaxPromises == 2      \* promises handed to the store or created by it
NumListeners == 2     \* distinct listener functions
MaxDepth == 2         \* notification passes running inside one another

VARIABLES
    store,      \* the closure variables of createSimpleStore
    ops,        \* state of the promise handed to the k-th setPromised call
    awaiters,   \* state of the n-th promise created by get() or set(None)
    armedBy,    \* the operation that created the promise `resolve` settles
    unsubs,     \* listeners for which subscribe() has returned an unsubscribe
    last,       \* the call or settlement that produced this state
    bridge,     \* the promises passed to _use, with what _use wrote on them
    mounted,    \* listeners of the mounted components that use the store
    pass,       \* the last notification pass run with listeners that act
    running     \* the notification passes that are running, innermost last

vars == <<store, ops, awaiters, armedBy, unsubs, last, bridge, mounted, pass,
          running>>

\* What the store's own operations never touch.
outside == <<bridge, mounted, pass, running>>

---------------------------------------------------------------------------
\* JavaScript values.

None == "None"
Undefined == "undefined"
Null == "null"
Objects == {"obj"}
Primitives == {"undefined", "null", "1", "NaN"}
PlainValues == Primitives \cup Objects
Reasons == {"err", "0"}
Falsy == {"undefined", "null", "0", "NaN", "", "false"}

\* if (x) ...
Truthy(x) == x \notin Falsy

\* a !== b
StrictNotEqual(a, b) == a # b \/ a = "NaN"

\* typeof v
TypeOf(v) == IF v \in Objects \cup {Null} THEN "object" ELSE "other"

\* typeof v === 'object' && v !== null
IsNonNullObject(v) == TypeOf(v) = "object" /\ v # Null

\* A promise passed to set() or to createSimpleStore().
PromiseArg == "Promise"

isPromise(v) == v = PromiseArg

Listeners == 1..NumListeners
OpIds == 1..MaxPromises
AwaiterIds == 1..MaxPromises

\* Promise objects the store holds or throws.
NoPromise == [kind |-> "none", id |-> 0]
Upd(k) == [kind |-> "update", id |-> k]
Aw(n) == [kind |-> "awaiter", id |-> n]

---------------------------------------------------------------------------
\* Notification.

NoCalls == [l \in Listeners |-> 0]

InSeq(l, ls) == \E i \in DOMAIN ls : ls[i] = l

\* Variant: a pass that stops after the first listener.
CallListenersFirstOnly(ls) ==
    [l \in Listeners |-> IF ls # <<>> /\ ls[1] = l THEN 1 ELSE 0]

\* Variant: a pass that invokes every listener twice.
CallListenersTwice(ls) == [l \in Listeners |-> IF InSeq(l, ls) THEN 2 ELSE 0]

\* The number of entries of listener l in the collection ls.
Entries(ls, l) == Cardinality({i \in DOMAIN ls : ls[i] = l})

\* listeners.forEach(_callListener): how often each listener is invoked.
CallListeners(ls) == [l \in Listeners |-> Entries(ls, l)]

---------------------------------------------------------------------------
\* The record of the last call.

NoResult == [tag |-> "none", v |-> Undefined, p |-> NoPromise]
Return(v) == [tag |-> "return", v |-> v, p |-> NoPromise]
ThrowError(e) == [tag |-> "throw", v |-> e, p |-> NoPromise]
ThrowPromise(p) == [tag |-> "throwPromise", v |-> Undefined, p |-> p]

NoArg == [kind |-> "none", v |-> Undefined]
NothingResolved == [n |-> 0, v |-> Undefined]

Event(op, arg, id, result, calls, resolved) ==
    [op |-> op, arg |-> arg, id |-> id, result |-> result,
     calls |-> calls, resolved |-> resolved]

---------------------------------------------------------------------------
\* Awaiter promises: new Promise((res) => { resolve = res }).

\* "none": not created; "pending": created by set(None) and not yet thrown;
\* "thrown": thrown by get() and not settled; "resolved": its resolver was called.
NextAwaiter == 1 + Cardinality({n \in AwaiterIds : awaiters[n] # "none"})

\* Another promise may be handed to the store or created by it.
MayCreatePromise ==
    Cardinality({k \in OpIds : ops[k] # "idle"}) + NextAwaiter <= MaxPromises

\* The awaiters after the resolver of awaiter n is called (n = 0: none is).
Resolved(aws, n) ==
    [m \in AwaiterIds |->
        IF m = n /\ aws[m] \in {"pending", "thrown"} THEN "resolved" ELSE aws[m]]

\* The awaiters after get() has thrown promise p.
Thrown(aws, p) ==
    [m \in AwaiterIds |->
        IF p = Aw(m) /\ aws[m] = "pending" THEN "thrown" ELSE aws[m]]

---------------------------------------------------------------------------
\* createSimpleStore: setPromised.

\* Variant: handlers that do not check the promise id.
IsActivePromiseAlways(s, thisPromiseId) == TRUE

\* currentPromiseId === thisPromiseId
IsActivePromise(s, thisPromiseId) == s.currentPromiseId = thisPromiseId

\* Variant: a setPromised that does not count the update.
setPromisedSameId(s) ==
    [s EXCEPT !.value = None,
              !.promiseError = Undefined,
              !.resolve = 0,
              !.promise = Upd(s.currentPromiseId + 1)]

\* Variant: a setPromised that leaves the held error in place.
setPromisedKeepsError(s) ==
    [s EXCEPT !.value = None,
              !.resolve = 0,
              !.currentPromiseId = s.currentPromiseId + 1,
              !.promise = Upd(s.currentPromiseId + 1)]

\* Variant: a setPromised that leaves the held value in place.
setPromisedKeepsValue(s) ==
    [s EXCEPT !.promiseError = Undefined,
              !.resolve = 0,
              !.currentPromiseId = s.currentPromiseId + 1,
              !.promise = Upd(s.currentPromiseId + 1)]

\* The synchronous part of setPromised.
setPromised(s) ==
    [s EXCEPT !.value = None,
              !.promiseError = Undefined,
              !.resolve = 0,
              !.currentPromiseId = s.currentPromiseId + 1,
              !.promise = Upd(s.currentPromiseId + 1)]

\* Variant: a .then handler that leaves `promise` in place.
onFulfilledKeepsPromise(s, thisPromiseId, resolvedValue) ==
    IF IsActivePromise(s, thisPromiseId)
    THEN [s EXCEPT !.promiseError = Undefined, !.value = resolvedValue]
    ELSE s

\* The .then handler of setPromised.
onFulfilled(s, thisPromiseId, resolvedValue) ==
    IF IsActivePromise(s, thisPromiseId)
    THEN [s EXCEPT !.promise = NoPromise,
                   !.promiseError = Undefined,
                   !.value = resolvedValue]
    ELSE s

\* The .catch handler of setPromised.
onRejected(s, thisPromiseId, error) ==
    IF IsActivePromise(s, thisPromiseId)
    THEN [s EXCEPT !.promise = NoPromise,
                   !.promiseError = error]
    ELSE s

\* Variant: the handlers run the listeners without the test of the id.
SettlementCallsUnguarded(s, thisPromiseId) == CallListeners(s.listeners)

\* The listeners a settlement handler invokes.
SettlementCalls(s, thisPromiseId) ==
    IF IsActivePromise(s, thisPromiseId) THEN CallListeners(s.listeners) ELSE NoCalls

---------------------------------------------------------------------------
\* store.get

\* Variant: get() without `if (promise) throw promise`.
GetOutcomeNoPromiseCheck(s, n) ==
    IF Truthy(s.promiseError) THEN ThrowError(s.promiseError)
    ELSE IF s.value = None THEN ThrowPromise(Aw(n))
    ELSE Return(s.value)

\* What get() returns or throws in store state s, n being the id of the
\* promise it creates if it creates one.
GetOutcome(s, n) ==
    IF Truthy(s.promiseError) THEN ThrowError(s.promiseError)
    ELSE IF s.promise # NoPromise THEN ThrowPromise(s.promise)
    ELSE IF s.value = None THEN ThrowPromise(Aw(n))
    ELSE Return(s.value)

\* Variant: a get() that arms a promise whenever no value is held.
GetArmsWheneverEmpty(s, n) == s.value = None

\* get() creates a promise and stores its resolver.
GetArms(s, n) == GetOutcome(s, n) = ThrowPromise(Aw(n))

Get ==
    LET n == NextAwaiter
        out == GetOutcome(store, n)
    IN  /\ GetArms(store, n) => MayCreatePromise
        /\ store' = IF GetArms(store, n)
                    THEN [store EXCEPT !.promise = Aw(n), !.resolve = n]
                    ELSE store
        /\ awaiters' =
              IF GetArms(store, n)
              THEN [awaiters EXCEPT ![n] = "thrown"]
              ELSE IF out.tag = "throwPromise" THEN Thrown(awaiters, out.p)
              ELSE awaiters
        /\ armedBy' = IF GetArms(store, n) THEN "get" ELSE armedBy
        /\ last' = Event("get", NoArg, IF GetArms(store, n) THEN n ELSE 0, out,
                         NoCalls, NothingResolved)
        /\ UNCHANGED <<ops, unsubs, outside>>

---------------------------------------------------------------------------
\* The accessors store.value and store.promise.

\* get value() { return value }
ValueAccessor(s) == s.value

\* get promise() { return promise }
PromiseAccessor(s) == s.promise

\* get identifier() { return identifier }
IdentifierAccessor(s) == s.identifier

\* What reading an accessor returns: a value or a promise object.
ReturnPromise(p) == [tag |-> "return", v |-> Undefined, p |-> p]

ReadValue ==
    /\ last' = Event("value", NoArg, 0, Return(ValueAccessor(store)), NoCalls,
                     NothingResolved)
    /\ UNCHANGED <<store, ops, awaiters, armedBy, unsubs, outside>>

ReadPromise ==
    /\ last' = Event("promise", NoArg, 0, ReturnPromise(PromiseAccessor(store)),
                     NoCalls, NothingResolved)
    /\ UNCHANGED <<store, ops, awaiters, armedBy, unsubs, outside>>

ReadIdentifier ==
    /\ last' = Event("identifier", NoArg, 0, Return(IdentifierAccessor(store)),
                     NoCalls, NothingResolved)
    /\ UNCHANGED <<store, ops, awaiters, armedBy, unsubs, outside>>

---------------------------------------------------------------------------
\* store.set

\* The arguments of set(): a value, or a function of the previous value that
\* returns the previous value ("prev") or a fixed result.
ValueArgs == {[kind |-> "value", v |-> v] : v \in PlainValues \cup {None, PromiseArg}}
FunctionArgs == {[kind |-> "function", v |-> v] : v \in {"prev", "1", None, PromiseArg}}
SetArgs == ValueArgs \cup FunctionArgs

ApplyFunction(f, prev) == IF f = "prev" THEN prev ELSE f

\* const nextValue = typeof newValue === 'function' ? newValue(...) : newValue
NextValue(s, arg) ==
    IF arg.kind = "function"
    THEN ApplyFunction(arg.v, IF s.value = None THEN Undefined ELSE s.value)
    ELSE arg.v

\* Variant: the test without its clause for object values.
CommitsIfDifferent(s, nextValue) == StrictNotEqual(nextValue, s.value)

\* nextValue !== value || (typeof value === 'object' && value !== null)
Commits(s, nextValue) ==
    StrictNotEqual(nextValue, s.value) \/ IsNonNullObject(s.value)

\* The branch of set() for nextValue === None.
setNone(s, n) == [s EXCEPT !.promise = Aw(n), !.resolve = n, !.value = None]

\* Variant: a commit that leaves `promise` and `resolve` in place.
setValueKeepsPromise(s, nextValue) ==
    [s EXCEPT !.promiseError = Undefined,
              !.value = nextValue]

\* The branch of set() that stores a plain value.
setValue(s, nextValue) ==
    [s EXCEPT !.promise = NoPromise,
              !.resolve = 0,
              !.promiseError = Undefined,
              !.value = nextValue]

\* set(arg), nextValue being the value the first statement computes.
SetStep(arg, nextValue) ==
    LET n == NextAwaiter
    IN  IF nextValue = None THEN
            /\ MayCreatePromise
            /\ store' = setNone(store, n)
            /\ awaiters' = [awaiters EXCEPT ![n] = "pending"]
            /\ armedBy' = "set"
            /\ last' = Event("set", arg, 0, NoResult,
                             CallListeners(store.listeners), NothingResolved)
            /\ UNCHANGED <<ops, unsubs, outside>>
        ELSE IF isPromise(nextValue) THEN
            /\ MayCreatePromise
            /\ store' = setPromised(store)
            /\ ops' = [ops EXCEPT ![store.currentPromiseId + 1] = "pending"]
            /\ last' = Event("set", arg, store.currentPromiseId + 1, NoResult,
                             NoCalls, NothingResolved)
            /\ armedBy' = "none"
            /\ UNCHANGED <<awaiters, unsubs, outside>>
        ELSE IF Commits(store, nextValue) THEN
            /\ store' = setValue(store, nextValue)
            /\ awaiters' = Resolved(awaiters, store.resolve)
            /\ armedBy' = "none"
            /\ last' = Event("set", arg, 0, NoResult, CallListeners(store.listeners),
                             IF store.resolve # 0
                             THEN [n |-> store.resolve, v |-> nextValue]
                             ELSE NothingResolved)
            /\ UNCHANGED <<ops, unsubs, outside>>
        ELSE
            /\ last' = Event("set", arg, 0, NoResult, NoCalls, NothingResolved)
            /\ UNCHANGED <<store, ops, awaiters, armedBy, unsubs, outside>>

Set(arg) == SetStep(arg, NextValue(store, arg))

---------------------------------------------------------------------------
\* Settlement of a promise handed to setPromised.

Fulfil(k, resolvedValue) ==
    /\ ops[k] = "pending"
    /\ ops' = [ops EXCEPT ![k] = "fulfilled"]
    /\ store' = onFulfilled(store, k, resolvedValue)
    /\ last' = Event("fulfil", [kind |-> "value", v |-> resolvedValue], k, NoResult,
                     SettlementCalls(store, k), NothingResolved)
    /\ UNCHANGED <<awaiters, armedBy, unsubs, outside>>

Reject(k, error) ==
    /\ ops[k] = "pending"
    /\ ops' = [ops EXCEPT ![k] = "rejected"]
    /\ store' = onRejected(store, k, error)
    /\ last' = Event("reject", [kind |-> "value", v |-> error], k, NoResult,
                     SettlementCalls(store, k), NothingResolved)
    /\ UNCHANGED <<awaiters, armedBy, unsubs, outside>>

---------------------------------------------------------------------------
\* store.subscribe and the function it returns.

\* Variant: subscribers kept in a list that takes a listener again.
AddAlways(ls, l) == Append(ls, l)

\* listeners.add(listener)
Add(ls, l) == IF InSeq(l, ls) THEN ls ELSE Append(ls, l)

\* Variant: an unsubscribe function that empties the set.
DeleteAll(ls, l) == <<>>

\* Variant: an unsubscribe function that removes nothing.
DeleteNothing(ls, l) == ls

\* listeners.delete(listener)
Delete(ls, l) == SelectSeq(ls, LAMBDA x : x # l)

\* The listener of a subscribe() or unsubscribe call: one the set has, one it
\* had until an unsubscribe function removed it, or one never subscribed.
ListenerArg(s, l) ==
    [kind |-> "listener",
     v |-> IF InSeq(l, s.listeners) THEN "subscribed"
           ELSE IF l \in unsubs THEN "removed"
           ELSE "new"]

Subscribe(l) ==
    /\ store' = [store EXCEPT !.listeners = Add(store.listeners, l)]
    /\ unsubs' = unsubs \cup {l}
    /\ last' = Event("subscribe", ListenerArg(store, l), l, NoResult, NoCalls,
                     NothingResolved)
    /\ UNCHANGED <<ops, awaiters, armedBy, outside>>

Unsubscribe(l) ==
    /\ l \in unsubs
    /\ store' = [store EXCEPT !.listeners = Delete(store.listeners, l)]
    /\ last' = Event("unsubscribe", ListenerArg(store, l), l, NoResult, NoCalls,
                     NothingResolved)
    /\ UNCHANGED <<ops, awaiters, armedBy, unsubs, outside>>

---------------------------------------------------------------------------
\* createSimpleStore(initialValue)

\* The identifier passed to createSimpleStore.
Identifier == "id"

EmptyStore ==
    [value |-> None, promise |-> NoPromise, promiseError |-> Undefined,
     currentPromiseId |-> 0, listeners |-> <<>>, resolve |-> 0,
     identifier |-> Identifier]

\* Variant: a constructor that takes null and undefined for "no value".
createSimpleStoreNullish(initialValue) ==
    IF isPromise(initialValue) THEN setPromised(EmptyStore)
    ELSE IF initialValue \in {Null, Undefined} THEN EmptyStore
    ELSE [EmptyStore EXCEPT !.value = initialValue]

\* Variant: a constructor that treats None as set(None) does.
createSimpleStoreArming(initialValue) ==
    IF isPromise(initialValue) THEN setPromised(EmptyStore)
    ELSE IF initialValue = None THEN setNone(EmptyStore, 1)
    ELSE [EmptyStore EXCEPT !.value = initialValue]

createSimpleStore(initialValue) ==
    IF isPromise(initialValue)
    THEN setPromised(EmptyStore)
    ELSE [EmptyStore EXCEPT !.value = initialValue]

\* A promise _use has not seen: not settled, nothing written on it.
FreshOperation ==
    [state |-> "pending", result |-> Undefined, status |-> "unset",
     value |-> Undefined, reason |-> Undefined, attached |-> 0, ran |-> 0]

---------------------------------------------------------------------------
\* src/src/use.ts: _use(promise), the promises being numbered like OpIds.

\* The promise object _use is called with.
Operation(k) == [kind |-> "operation", id |-> k]

\* Variant: _use that marks the promise and calls then() whatever it finds.
UseAttachesAlways(b) == TRUE

\* Variant: _use without the test of status 'pending'.
UseAttachesAgain(b) == b.status \notin {"fulfilled", "rejected"}

\* _use reaches its else branch: it marks the promise and calls then().
UseAttaches(b) == b.status \notin {"fulfilled", "rejected", "pending"}

\* What _use returns or throws for the promise k carrying b.
UseOutcome(b, k) ==
    IF b.status = "fulfilled" THEN Return(b.value)
    ELSE IF b.status = "rejected" THEN ThrowError(b.reason)
    ELSE ThrowPromise(Operation(k))

\* The status _use finds on the promise.
StatusArg(b) == [kind |-> "status", v |-> b.status]

Use(k) ==
    /\ bridge' = [bridge EXCEPT ![k] =
                     IF UseAttaches(@)
                     THEN [@ EXCEPT !.status = "pending", !.attached = @ + 1]
                     ELSE @]
    /\ last' = Event("use", StatusArg(bridge[k]), k, UseOutcome(bridge[k], k),
                     NoCalls, NothingResolved)
    /\ UNCHANGED <<store, ops, awaiters, armedBy, unsubs, mounted, pass, running>>

\* The promise k settles; the functions given to then() run later.
SettleOperation(k, state, result) ==
    /\ bridge[k].state = "pending"
    /\ bridge' = [bridge EXCEPT ![k].state = state, ![k].result = result]
    /\ last' = Event("settle", [kind |-> state, v |-> result], k, NoResult,
                     NoCalls, NothingResolved)
    /\ UNCHANGED <<store, ops, awaiters, armedBy, unsubs, mounted, pass, running>>

\* Variant: a fulfilment handler that writes the status only.
onUseFulfilledStatusOnly(b) ==
    [b EXCEPT !.status = "fulfilled", !.ran = @ + 1]

\* (result) => { promise.status = 'fulfilled'; promise.value = result }
onUseFulfilled(b) ==
    [b EXCEPT !.status = "fulfilled", !.value = b.result, !.ran = @ + 1]

\* (reason) => { promise.status = 'rejected'; promise.reason = reason }
onUseRejected(b) ==
    [b EXCEPT !.status = "rejected", !.reason = b.result, !.ran = @ + 1]

\* A function _use gave to then() runs, the promise having settled.
RunContinuation(k) ==
    /\ bridge[k].state # "pending"
    /\ bridge[k].ran < bridge[k].attached
    /\ bridge' = [bridge EXCEPT ![k] =
                     IF @.state = "fulfilled"
                     THEN onUseFulfilled(@) ELSE onUseRejected(@)]
    /\ last' = Event("continuation", NoArg, k, NoResult, NoCalls, NothingResolved)
    /\ UNCHANGED <<store, ops, awaiters, armedBy, unsubs, mounted, pass, running>>

---------------------------------------------------------------------------
\* src/src/react.ts: useSimpleStore(store), one component per listener.

\* The render passes `if (store.promise) use(store.promise)` and store.get()
\* without suspending.
RenderReturns(s) ==
    /\ PromiseAccessor(s) = NoPromise
    /\ GetOutcome(s, NextAwaiter).tag = "return"

\* A component renders and its effect subscribes a listener made for it.
Mount(l) ==
    /\ l \notin unsubs
    /\ RenderReturns(store)
    /\ store' = [store EXCEPT !.listeners = Add(store.listeners, l)]
    /\ unsubs' = unsubs \cup {l}
    /\ mounted' = mounted \cup {l}
    /\ last' = Event("mount", ListenerArg(store, l), l, NoResult, NoCalls,
                     NothingResolved)
    /\ UNCHANGED <<ops, awaiters, armedBy, bridge, pass, running>>

\* The component unmounts: the effect returned no cleanup function.
Unmount(l) ==
    /\ l \in mounted
    /\ mounted' = mounted \ {l}
    /\ last' = Event("unmount", ListenerArg(store, l), l, NoResult, NoCalls,
                     NothingResolved)
    /\ UNCHANGED <<store, ops, awaiters, armedBy, unsubs, bridge, pass, running>>

---------------------------------------------------------------------------
\* listeners.forEach(_callListener) with listeners that call the store.

\* The listener returns without calling the store.
Nothing == [do |-> "nothing", l |-> 0]

\* The listener calls the unsubscribe function of listener m.
Unsubscribes(m) == [do |-> "unsubscribe", l |-> m]

Effects == {Nothing} \cup {Unsubscribes(m) : m \in Listeners}

\* What each listener does when invoked.
Behaviours == [Listeners -> Effects]

\* The subscriber set after a listener has done what it does.
Act(ls, effect) ==
    IF effect.do = "unsubscribe" THEN Delete(ls, effect.l) ELSE ls

\* Set.prototype.forEach from entry i on: entries are visited in insertion
\* order, an entry deleted before its visit is not visited.  gone counts the
\* entries up to the visited one that its listener deleted.
RECURSIVE Visit(_, _, _, _)
Visit(ls, i, beh, trace) ==
    IF i > Len(ls) THEN [listeners |-> ls, trace |-> trace]
    ELSE LET after == Act(ls, beh[ls[i]])
             gone == Cardinality({j \in 1..i : ~InSeq(ls[j], after)})
         IN  Visit(after, i + 1 - gone, beh, Append(trace, ls[i]))

\* Variant: a pass over a copy of the set taken when the pass starts.
ForEachSnapshot(ls, beh) ==
    [listeners |->
        SelectSeq(ls, LAMBDA x :
            \A i \in DOMAIN ls : beh[ls[i]] # Unsubscribes(x)),
     trace |-> ls]

\* listeners.forEach(_callListener): the listeners invoked, in order, and
\* the subscriber set the pass leaves.
ForEach(ls, beh) == Visit(ls, 1, beh, <<>>)

\* How often each listener occurs in a trace.
CallsIn(trace) == [l \in Listeners |-> Entries(trace, l)]

\* Only subscribed listeners are given something to do, and a listener only
\* calls an unsubscribe function that subscribe() has returned.
CanBehave(beh) ==
    \A l \in Listeners :
        beh[l] # Nothing
           => /\ InSeq(l, store.listeners)
              /\ beh[l].l \in unsubs

\* The arguments of the set() calls whose listeners act: an object, which
\* commits whenever the store does not already hold it.
ActingArgs == {[kind |-> "value", v |-> v] : v \in Objects}

\* A set() call that commits a plain value and so reaches
\* listeners.forEach, the listeners behaving as beh.
SetActing(arg, beh) ==
    LET nextValue == NextValue(store, arg)
        p == ForEach(store.listeners, beh)
    IN  /\ ~isPromise(nextValue)
        /\ nextValue # None
        /\ Commits(store, nextValue)
        /\ CanBehave(beh)
        /\ store' = [setValue(store, nextValue)
                       EXCEPT !.listeners = p.listeners]
        /\ awaiters' = Resolved(awaiters, store.resolve)
        /\ armedBy' = "none"
        /\ pass' = [beh |-> beh, trace |-> p.trace]
        /\ last' = Event("set", arg, 0, NoResult, CallsIn(p.trace),
                         IF store.resolve # 0
                         THEN [n |-> store.resolve, v |-> nextValue]
                         ELSE NothingResolved)
        /\ UNCHANGED <<ops, unsubs, bridge, mounted, running>>

---------------------------------------------------------------------------
\* Notification passes step by step: each invocation of a listener is a step,
\* and the listener may read the store, call set(), subscribe() or an
\* unsubscribe function, or throw.

\* No .catch handler of setPromised is waiting to run.
NoCatch == [id |-> 0, error |-> Undefined]

\* No pass is running.
NotRunning == [stack |-> <<>>, since |-> {}, nested |-> FALSE, caught |-> NoCatch]

\* What an exception thrown by a listener is.
Exception == "exc"

\* What a listener does in one invocation.
Does(do, l, v) == [do |-> do, l |-> l, v |-> v]
Returns == Does("nothing", 0, Undefined)
CallsGet == Does("get", 0, Undefined)
ReadsPromise == Does("promise", 0, Undefined)
CallsSet(v) == Does("set", 0, v)
CallsSubscribe(m) == Does("subscribe", m, Undefined)
CallsUnsubscribe(m) == Does("unsubscribe", m, Undefined)
Throws == Does("throw", 0, Exception)

\* The innermost running listeners.forEach and the number of running ones.
Top == running.stack[Len(running.stack)]
Depth == Len(running.stack)

\* No store code is on the call stack and no reaction of a store promise is
\* waiting.
Idle == running.stack = <<>> /\ running.caught = NoCatch

\* Variant: a forEach that starts behind the entry whose listener called set().
FirstEntryAfterCaller(stack) ==
    IF stack = <<>> THEN 0 ELSE stack[Len(stack)].pos

\* listeners.forEach starts before the first entry of the set, whatever is
\* running: the number of entries it has passed.
FirstEntry(stack) == 0

\* A listeners.forEach that starts on the subscribers ls after the store has
\* been written: kind names the statement before it, id the update, committed
\* the value written, resolved the awaiter whose resolver was called.
NewFrame(kind, id, committed, resolved, ls, stack) ==
    [kind |-> kind, id |-> id, committed |-> committed, resolved |-> resolved,
     pos |-> FirstEntry(stack), fresh |-> TRUE,
     turn |-> [l \in Listeners |-> IF InSeq(l, ls) THEN "due" ELSE "out"],
     within |-> {},
     calls |-> NoCalls]

\* The store was written: no running pass is the pass of its last write.
Stale(stack) == [i \in DOMAIN stack |-> [stack[i] EXCEPT !.fresh = FALSE]]

\* A listener's turn: due, done, and again if it is invoked once more.
Advance(t) == IF t = "due" THEN "done" ELSE "again"

\* The innermost forEach passes its next entry and invokes listener l.
Entered(stack, l) ==
    [stack EXCEPT ![Len(stack)] =
        [@ EXCEPT !.pos = @ + 1,
                  !.turn[l] = Advance(@),
                  !.calls[l] = IF @ < 2 THEN @ + 1 ELSE @]]

\* The place of l among the entries ls, 0 if it has none.
Position(ls, l) == IF InSeq(l, ls) THEN CHOOSE i \in DOMAIN ls : ls[i] = l ELSE 0

\* listeners.delete(l) while passes run: an entry that a forEach has passed
\* no longer counts among those it has passed.
Removed(stack, ls, l) ==
    [i \in DOMAIN stack |->
        [stack[i] EXCEPT !.pos = IF Position(ls, l) \in 1..@ THEN @ - 1 ELSE @,
                         !.turn[l] = "out"]]

\* listeners.add(l) while passes run: a new entry is behind every entry any
\* running forEach has passed.
Added(stack, ls, l) ==
    IF InSeq(l, ls) THEN stack
    ELSE [i \in DOMAIN stack |->
            [stack[i] EXCEPT !.turn[l] = "due",
                             !.within = IF i = Len(stack) THEN @ \cup {l} ELSE @]]

\* Variant: a forEach that stops at an entry added while it runs.
HasNextOfOld(frame, ls) ==
    /\ frame.pos < Len(ls)
    /\ ls[frame.pos + 1] \notin frame.within

\* forEach has an entry left to visit: one behind those it has passed,
\* whenever it was added.
HasNext(frame, ls) == frame.pos < Len(ls)

\* The pass that a write of the store starts, r being what runs already.
Started(r, frame) ==
    [r EXCEPT !.stack = Append(Stale(@), frame),
              !.since = {},
              !.nested = @ \/ r.stack # <<>>]

\* What the event of a listener's invocation says the listener did.
EffectArg(effect) == [kind |-> effect.do, v |-> effect.v]

\* set(arg) called by listener l from a pass (l = 0: by the program, no pass
\* running), r being what runs when it is called.
SetFrom(arg, r, l) ==
    LET nextValue == NextValue(store, arg)
        n == NextAwaiter
        op == IF l = 0 THEN "set" ELSE "call"
        a == IF l = 0 THEN arg ELSE EffectArg(CallsSet(arg.v))
    IN  IF nextValue = None THEN
            /\ MayCreatePromise
            /\ store' = setNone(store, n)
            /\ awaiters' = [awaiters EXCEPT ![n] = "pending"]
            /\ armedBy' = "set"
            /\ running' = Started(r, NewFrame("none", 0, None, 0,
                                              store.listeners, r.stack))
            /\ last' = Event(op, a, l, NoResult, NoCalls, NothingResolved)
            /\ UNCHANGED <<ops, unsubs, bridge, mounted, pass>>
        ELSE IF isPromise(nextValue) THEN
            /\ MayCreatePromise
            /\ store' = setPromised(store)
            /\ ops' = [ops EXCEPT ![store.currentPromiseId + 1] = "pending"]
            /\ armedBy' = "none"
            /\ running' = [r EXCEPT !.stack = Stale(@)]
            /\ last' = Event(op, a, l, NoResult, NoCalls, NothingResolved)
            /\ UNCHANGED <<awaiters, unsubs, bridge, mounted, pass>>
        ELSE IF Commits(store, nextValue) THEN
            /\ store' = setValue(store, nextValue)
            /\ awaiters' = Resolved(awaiters, store.resolve)
            /\ armedBy' = "none"
            /\ running' = Started(r, NewFrame("commit", 0, nextValue,
                                              store.resolve, store.listeners,
                                              r.stack))
            /\ last' = Event(op, a, l, NoResult, NoCalls,
                             IF store.resolve # 0
                             THEN [n |-> store.resolve, v |-> nextValue]
                             ELSE NothingResolved)
            /\ UNCHANGED <<ops, unsubs, bridge, mounted, pass>>
        ELSE
            /\ running' = r
            /\ last' = Event(op, a, l, NoResult, NoCalls, NothingResolved)
            /\ UNCHANGED <<store, ops, awaiters, armedBy, unsubs, bridge,
                           mounted, pass>>

\* The program calls set(arg).
StartSet(arg) == Idle /\ SetFrom(arg, running, 0)

\* The promise of update k fulfils and the .then handler of setPromised runs.
StartFulfil(k, resolvedValue) ==
    /\ Idle
    /\ ops[k] = "pending"
    /\ ops' = [ops EXCEPT ![k] = "fulfilled"]
    /\ store' = onFulfilled(store, k, resolvedValue)
    /\ running' = IF IsActivePromise(store, k)
                  THEN Started(running, NewFrame("fulfil", k, resolvedValue, 0,
                                                 store.listeners, running.stack))
                  ELSE running
    /\ last' = Event("fulfil", [kind |-> "value", v |-> resolvedValue], k,
                     NoResult, NoCalls, NothingResolved)
    /\ UNCHANGED <<awaiters, armedBy, unsubs, bridge, mounted, pass>>

\* The promise of update k rejects: the .then handler is passed over and the
\* .catch handler of setPromised runs.
StartReject(k, error) ==
    /\ Idle
    /\ ops[k] = "pending"
    /\ ops' = [ops EXCEPT ![k] = "rejected"]
    /\ store' = onRejected(store, k, error)
    /\ running' = IF IsActivePromise(store, k)
                  THEN Started(running, NewFrame("reject", k, error, 0,
                                                 store.listeners, running.stack))
                  ELSE running
    /\ last' = Event("reject", [kind |-> "value", v |-> error], k,
                     NoResult, NoCalls, NothingResolved)
    /\ UNCHANGED <<awaiters, armedBy, unsubs, bridge, mounted, pass>>

\* The .then handler of update k has thrown, so the promise it returns is
\* rejected with what it threw, and the .catch handler chained on that
\* promise runs with it as the next job.
RunCatch ==
    /\ running.stack = <<>>
    /\ running.caught # NoCatch
    /\ store' = onRejected(store, running.caught.id, running.caught.error)
    /\ running' =
          IF IsActivePromise(store, running.caught.id)
          THEN Started([running EXCEPT !.caught = NoCatch],
                       NewFrame("catch", running.caught.id, running.caught.error,
                                0, store.listeners, <<>>))
          ELSE [running EXCEPT !.caught = NoCatch]
    /\ last' = Event("catch", [kind |-> "value", v |-> running.caught.error],
                     running.caught.id, NoResult, NoCalls, NothingResolved)
    /\ UNCHANGED <<ops, awaiters, armedBy, unsubs, bridge, mounted, pass>>

\* What is left running once a listener has thrown: _callListener and forEach
\* catch nothing, so every running pass and set() call is abandoned; if the
\* outermost pass is that of a .then handler, the handler has thrown.
Abandoned(r) ==
    [NotRunning EXCEPT !.caught =
        IF r.stack[1].kind = "fulfil"
        THEN [id |-> r.stack[1].id, error |-> Exception]
        ELSE NoCatch]

\* _callListener(listener): the innermost forEach invokes the listener of its
\* next entry, and the listener does what effect says.
Invoke(effect) ==
    /\ running.stack # <<>>
    /\ HasNext(Top, store.listeners)
    /\ LET l == store.listeners[Top.pos + 1]
           called == [running EXCEPT !.stack = Entered(@, l),
                                     !.since = @ \cup {l}]
           n == NextAwaiter
       IN  CASE effect.do = "nothing" ->
                  /\ running' = called
                  /\ last' = Event("call", EffectArg(effect), l, NoResult,
                                   NoCalls, NothingResolved)
                  /\ UNCHANGED <<store, ops, awaiters, armedBy, unsubs, bridge,
                                 mounted, pass>>
             [] effect.do = "promise" ->
                  /\ running' = called
                  /\ last' = Event("call", EffectArg(effect), l,
                                   ReturnPromise(PromiseAccessor(store)),
                                   NoCalls, NothingResolved)
                  /\ UNCHANGED <<store, ops, awaiters, armedBy, unsubs, bridge,
                                 mounted, pass>>
             [] effect.do = "get" ->
                  /\ GetArms(store, n) => MayCreatePromise
                  /\ store' = IF GetArms(store, n)
                              THEN [store EXCEPT !.promise = Aw(n), !.resolve = n]
                              ELSE store
                  /\ awaiters' =
                        IF GetArms(store, n)
                        THEN [awaiters EXCEPT ![n] = "thrown"]
                        ELSE IF GetOutcome(store, n).tag = "throwPromise"
                        THEN Thrown(awaiters, GetOutcome(store, n).p)
                        ELSE awaiters
                  /\ armedBy' = IF GetArms(store, n) THEN "get" ELSE armedBy
                  /\ running' = IF GetArms(store, n)
                                THEN [called EXCEPT !.stack = Stale(@)]
                                ELSE called
                  /\ last' = Event("call", EffectArg(effect), l,
                                   GetOutcome(store, n), NoCalls, NothingResolved)
                  /\ UNCHANGED <<ops, unsubs, bridge, mounted, pass>>
             [] effect.do = "subscribe" ->
                  /\ store' = [store EXCEPT
                                 !.listeners = Add(store.listeners, effect.l)]
                  /\ unsubs' = unsubs \cup {effect.l}
                  /\ running' = [called EXCEPT !.stack =
                                    Added(@, store.listeners, effect.l)]
                  /\ last' = Event("call", ListenerArg(store, effect.l), l,
                                   NoResult, NoCalls, NothingResolved)
                  /\ UNCHANGED <<ops, awaiters, armedBy, bridge, mounted, pass>>
             [] effect.do = "unsubscribe" ->
                  /\ effect.l \in unsubs
                  /\ store' = [store EXCEPT
                                 !.listeners = Delete(store.listeners, effect.l)]
                  /\ running' = [called EXCEPT !.stack =
                                    Removed(@, store.listeners, effect.l)]
                  /\ last' = Event("call", EffectArg(effect), l,
                                   NoResult, NoCalls, NothingResolved)
                  /\ UNCHANGED <<ops, awaiters, armedBy, unsubs, bridge, mounted,
                                 pass>>
             [] effect.do = "set" ->
                  /\ Depth < MaxDepth
                  /\ SetFrom([kind |-> "value", v |-> effect.v], called, l)
             [] effect.do = "throw" ->
                  /\ running' = Abandoned(called)
                  /\ last' = Event("call", EffectArg(effect), l,
                                   ThrowError(Exception), NoCalls, NothingResolved)
                  /\ UNCHANGED <<store, ops, awaiters, armedBy, unsubs, bridge,
                                 mounted, pass>>

\* The innermost forEach has passed every entry: it returns, and so does the
\* set() call or the handler that ran it.
EndPass ==
    /\ running.stack # <<>>
    /\ ~HasNext(Top, store.listeners)
    /\ running' = IF Depth = 1 THEN NotRunning
                  ELSE [running EXCEPT !.stack = SubSeq(@, 1, Len(@) - 1)]
    /\ last' = Event("return", NoArg, Depth - 1, NoResult, NoCalls,
                     NothingResolved)
    /\ UNCHANGED <<store, ops, awaiters, armedBy, unsubs, bridge, mounted, pass>>

---------------------------------------------------------------------------
\* Initial state.

\* No pass has run: no listener has been given anything to do.
NoPass == [beh |-> [l \in Listeners |-> Nothing], trace |-> <<>>]

Init ==
    \E initialValue \in PlainValues \cup {None, PromiseArg} :
        /\ store = createSimpleStore(initialValue)
        /\ ops = [k \in OpIds |->
                    IF k <= createSimpleStore(initialValue).currentPromiseId
                    THEN "pending" ELSE "idle"]
        /\ awaiters = [n \in AwaiterIds |-> "none"]
        /\ armedBy = "none"
        /\ unsubs = {}
        /\ bridge = [k \in OpIds |-> FreshOperation]
        /\ mounted = {}
        /\ pass = NoPass
        /\ running = NotRunning
        /\ last = Event("create", [kind |-> "value", v |-> initialValue], 0,
                        NoResult, NoCalls, NothingResolved)

Next ==
    \/ Get
    \/ \E arg \in SetArgs : Set(arg)
    \/ \E k \in OpIds, v \in PlainValues : Fulfil(k, v)
    \/ \E k \in OpIds, e \in Reasons : Reject(k, e)
    \/ \E l \in Listeners : Subscribe(l)
    \/ \E l \in Listeners : Unsubscribe(l)

Spec == Init /\ [][Next]_vars

\* The store with reads of its accessors.
NextAccessors ==
    \/ Next
    \/ ReadValue
    \/ ReadPromise
    \/ ReadIdentifier

SpecAccessors == Init /\ [][NextAccessors]_vars

\* Calls of _use on promises that settle.
NextUse ==
    \/ \E k \in OpIds : Use(k)
    \/ \E k \in OpIds, v \in PlainValues : SettleOperation(k, "fulfilled", v)
    \/ \E k \in OpIds, e \in Reasons : SettleOperation(k, "rejected", e)
    \/ \E k \in OpIds : RunContinuation(k)

SpecUse == Init /\ [][NextUse]_vars

\* Components that use the store mount and unmount while it is read and set.
NextReact ==
    \/ Get
    \/ \E arg \in SetArgs : Set(arg)
    \/ \E l \in Listeners : Mount(l)
    \/ \E l \in Listeners : Unmount(l)

SpecReact == Init /\ [][NextReact]_vars

\* Notification passes whose listeners unsubscribe listeners.
NextActing ==
    \/ \E l \in Listeners : Subscribe(l)
    \/ \E arg \in ActingArgs, beh \in Behaviours : SetActing(arg, beh)

\* The store is constructed with a value that is not an object.
InitActing == Init /\ store.value \in Primitives

SpecActing == InitActing /\ [][NextActing]_vars

\* The value listeners pass to set(): an object, which always commits.
NestedEffects ==
    {CallsGet, ReadsPromise} \cup {CallsSet(v) : v \in Objects}

\* What the program passes to set() between the passes.
StartArgs == {[kind |-> "value", v |-> v] : v \in Objects \cup {None, PromiseArg}}

\* Notification passes whose listeners read the store and call set().
NextNested ==
    \/ Idle /\ Get
    \/ \E arg \in StartArgs : StartSet(arg)
    \/ \E k \in OpIds, v \in Objects : StartFulfil(k, v)
    \/ \E l \in Listeners : Idle /\ Subscribe(l)
    \/ \E effect \in NestedEffects : Invoke(effect)
    \/ EndPass

\* The store is constructed empty.
InitNested == Init /\ store = EmptyStore

SpecNested == InitNested /\ [][NextNested]_vars

\* Async updates whose settlement passes invoke listeners that may throw.
NextThrowing ==
    \/ Idle /\ Get
    \/ StartSet([kind |-> "value", v |-> PromiseArg])
    \/ \E k \in OpIds, v \in PlainValues : StartFulfil(k, v)
    \/ \E k \in OpIds, e \in Reasons : StartReject(k, e)
    \/ RunCatch
    \/ \E l \in Listeners : Idle /\ Subscribe(l)
    \/ \E effect \in {Returns, Throws} : Invoke(effect)
    \/ EndPass

SpecThrowing == Init /\ [][NextThrowing]_vars

\* What listeners that subscribe and unsubscribe listeners do.
SubscribingEffects ==
    {Returns} \cup {CallsSubscribe(m) : m \in Listeners}
              \cup {CallsUnsubscribe(m) : m \in Listeners}

\* Notification passes whose listeners subscribe and unsubscribe listeners.
NextSubscribing ==
    \/ \E arg \in ActingArgs : StartSet(arg)
    \/ \E l \in Listeners : Idle /\ Subscribe(l)
    \/ \E l \in Listeners : Idle /\ Unsubscribe(l)
    \/ \E effect \in SubscribingEffects : Invoke(effect)
    \/ EndPass

SpecSubscribing == InitActing /\ [][NextSubscribing]_vars

---------------------------------------------------------------------------
\* Vocabulary of the properties.

\* What the next get() would return or throw.
NextGet == GetOutcome(store, NextAwaiter)

Settled == last.op \in {"fulfil", "reject"}

\* Every subscribed listener was invoked exactly once by the last call, and
\* no other listener was invoked.
EachSubscriberOnce ==
    \A l \in Listeners :
        last.calls[l] = IF InSeq(l, store.listeners) THEN 1 ELSE 0

\* The value the set() call that produced the next state worked with.
SetValue == NextValue(store, last'.arg)

IsPlain(v) == v \notin {None, PromiseArg}

\* The step is a set() of a plain value that commits.
PlainCommit == last'.op = "set" /\ IsPlain(SetValue) /\ Commits(store, SetValue)

\* The step is a set() of a promise.
AsyncStart == last'.op = "set" /\ isPromise(SetValue)

---------------------------------------------------------------------------
\* C1: only the most recently started async update commits: when an update
\* that is not the most recently started one settles (fulfilled or rejected),
\* the held value, the held error, the promise accessor and the armed
\* resolver are unchanged.
C1_StaleSettlementIsNoOp ==
    [][ (last'.op \in {"fulfil", "reject"} /\ last'.id # store.currentPromiseId)
        => /\ store'.value = store.value
           /\ store'.promiseError = store.promiseError
           /\ store'.promise = store.promise
           /\ store'.resolve = store.resolve ]_vars

\* A superseded update has settled while listeners were subscribed.
C1_Witness ==
    /\ Settled
    /\ last.id < store.currentPromiseId
    /\ store.listeners # <<>>

\* C2: with update A started and update B started before A settles, a
\* subscribed listener is invoked zero times by A's settlement and exactly
\* once by B's settlement, whichever settles first and however each settles;
\* after B fulfils, get() returns B's result.
C2_OneNotificationForLatestUpdate ==
    Settled =>
        /\ last.id < store.currentPromiseId => last.calls = NoCalls
        /\ last.id = store.currentPromiseId => EachSubscriberOnce
        /\ (last.op = "fulfil" /\ last.id = store.currentPromiseId)
              => NextGet = Return(last.arg.v)

\* A settles after B, which was started while A was in flight, has fulfilled.
C2_Witness ==
    /\ Settled
    /\ last.id = 1
    /\ store.currentPromiseId = 2
    /\ ops[2] = "fulfilled"
    /\ store.listeners # <<>>

\* C3: a newer set of any kind supersedes an in-flight update: once set has
\* committed a plain value or stored None while update U was in flight, the
\* promise accessor no longer exposes U's promise, and U's settlement changes
\* neither the held value, the held error nor the promise accessor and
\* invokes no subscriber.
C3_NewerSetSupersedesUpdate ==
    [][ (last'.op \in {"fulfil", "reject"} /\ store.promise # Upd(last'.id))
        => /\ store'.value = store.value
           /\ store'.promiseError = store.promiseError
           /\ store'.promise = store.promise
           /\ last'.calls = NoCalls ]_vars

\* C4: from every state, set(None) invokes each current subscriber exactly
\* once, and the next get() throws the in-flight operation the promise
\* accessor exposes, not a held error.
C4_SetNoneSuspendsNextGet ==
    (last.op = "set" /\ last.arg.v = None) =>
        /\ EachSubscriberOnce
        /\ store.promise # NoPromise
        /\ NextGet = ThrowPromise(store.promise)

\* C5: when the current update rejects with reason E, whatever E is, the
\* next get() throws exactly E, not an in-flight operation and not a value.
C5_RejectionReasonSurfacedVerbatim ==
    (last.op = "reject" /\ last.id = store.currentPromiseId) =>
        NextGet = ThrowError(last.arg.v)

\* The store holds an error: promiseError was assigned a rejection reason and
\* has not been cleared since.
HoldsError(s) == s.promiseError # Undefined

\* C6: once the store holds error E, every get() fails with E until a plain
\* value is committed or a new async update is started; after a committed
\* plain value get() returns that value, and after a newly started update
\* get() throws the new operation.
C6_HeldErrorUntilReplaced ==
    [][ /\ HoldsError(store') => NextGet' = ThrowError(store'.promiseError)
        /\ (HoldsError(store) /\ ~PlainCommit /\ ~AsyncStart)
              => store'.promiseError = store.promiseError
        /\ (HoldsError(store) /\ PlainCommit) => NextGet' = Return(SetValue)
        /\ (HoldsError(store) /\ AsyncStart)
              => NextGet' = ThrowPromise(Upd(store'.currentPromiseId)) ]_vars

\* C7: after set(None) has armed operation P, the next set of a plain value
\* v fulfils P with v, and right after it get() returns v and the promise
\* accessor is absent.  (resolve still holds the resolver set(None) stored
\* exactly when no set has committed since.)
C7_NextPlainSetFulfilsAwaiter ==
    [][ (last'.op = "set" /\ IsPlain(SetValue) /\ armedBy = "set" /\ store.resolve # 0)
        => /\ last'.resolved = [n |-> store.resolve, v |-> SetValue]
           /\ awaiters'[store.resolve] = "resolved"
           /\ NextGet' = Return(SetValue)
           /\ store'.promise = NoPromise ]_vars

\* C8: every promise get() has thrown for a value that is not set yet is
\* resolved once the store holds a value.
C8_ThrownAwaiterResolvedWithValue ==
    store.value # None => \A n \in AwaiterIds : awaiters[n] # "thrown"

\* C9: between two state-changing events all get() calls that throw an
\* in-flight operation throw the same one, the one the promise accessor
\* exposes: a get() right after a get() that threw an operation has the same
\* outcome, the thrown operation is the promise accessor's, and get(),
\* subscribe and unsubscribe leave a present promise accessor as it is.
C9_GetSurfacesSameOperation ==
    [][ /\ (last.op = "get" /\ last.result.tag = "throwPromise" /\ last'.op = "get")
              => last'.result = last.result
        /\ (last'.op = "get" /\ last'.result.tag = "throwPromise")
              => last'.result.p = store'.promise
        /\ (last'.op \in {"get", "subscribe", "unsubscribe"} /\ store.promise # NoPromise)
              => store'.promise = store.promise ]_vars

\* A get() has thrown again the operation an earlier get() armed.
C9_Witness ==
    /\ last.op = "get"
    /\ last.result.tag = "throwPromise"
    /\ last.result.p.kind = "awaiter"
    /\ last.id = 0
    /\ armedBy = "get"

\* C10: when the store holds primitive v, set(v) changes no state and invokes
\* no subscriber; set(w) with a primitive w other than v makes get() return
\* w and invokes each current subscriber exactly once.
C10_PrimitiveSetNotifiesOnChangeOnly ==
    [][ (last'.op = "set" /\ store.value \in Primitives /\ SetValue \in Primitives)
        => IF SetValue = store.value
           THEN /\ store' = store
                /\ awaiters' = awaiters
                /\ last'.calls = NoCalls
           ELSE /\ NextGet' = Return(SetValue)
                /\ EachSubscriberOnce' ]_vars

\* C11: whenever the store holds a non-null object, every set of a plain
\* value, the same reference included, commits it (the value is stored, no
\* promise and no error remain, get() returns it) and invokes each current
\* subscriber exactly once.
C11_ObjectValueAlwaysRecommits ==
    [][ (last'.op = "set" /\ store.value \in Objects /\ IsPlain(SetValue))
        => /\ ValueAccessor(store') = SetValue
           /\ PromiseAccessor(store') = NoPromise
           /\ NextGet' = Return(SetValue)
           /\ EachSubscriberOnce' ]_vars

\* set(prev => prev) on a held object has stored the same reference again and
\* invoked the subscribers.
C11_Witness ==
    /\ last.op = "set"
    /\ last.arg = [kind |-> "function", v |-> "prev"]
    /\ store.value \in Objects
    /\ store.listeners # <<>>
    /\ EachSubscriberOnce

\* C12: a set() of an in-flight operation invokes no subscriber during the
\* call; the settlement of that update invokes each current subscriber
\* exactly once when the update is still the most recently started one, and
\* invokes none when a later update has been started.
C12_AsyncSetNotifiesAtSettlement ==
    /\ (last.op = "set" /\ isPromise(last.arg.v)) => last.calls = NoCalls
    /\ Settled =>
          IF last.id = store.currentPromiseId
          THEN EachSubscriberOnce
          ELSE last.calls = NoCalls

\* The update started by a set() has settled, still the latest, with both a
\* subscribed and an unsubscribed listener.
C12_Witness ==
    /\ Settled
    /\ last.id = store.currentPromiseId
    /\ \E l \in Listeners : last.calls[l] = 1
    /\ \E l \in Listeners : last.calls[l] = 0

\* C13: when the most recently started async update fulfils with result r,
\* then right after the settlement get() returns r, the value accessor
\* returns r, the promise accessor is absent and no error is held.
C13_CurrentFulfilmentCommits ==
    (last.op = "fulfil" /\ last.id = store.currentPromiseId)
        => /\ NextGet = Return(last.arg.v)
           /\ ValueAccessor(store) = last.arg.v
           /\ PromiseAccessor(store) = NoPromise
           /\ store.promiseError = Undefined

\* The latest update has fulfilled after a set(None) had armed a promise
\* while the update was in flight.
C13_Witness ==
    /\ last.op = "fulfil"
    /\ last.id = store.currentPromiseId
    /\ store.resolve # 0
    /\ store.listeners # <<>>

\* C14: a store constructed with a plain value v, null and undefined
\* included, returns v from get() and from the value accessor at once; its
\* promise accessor is absent and get() arms no promise.
C14_PlainInitialValueIsHeld ==
    (last.op = "create" /\ IsPlain(last.arg.v))
        => /\ NextGet = Return(last.arg.v)
           /\ ValueAccessor(store) = last.arg.v
           /\ PromiseAccessor(store) = NoPromise
           /\ ~GetArms(store, NextAwaiter)

\* A store has been constructed with null.
C14_Witness ==
    /\ last.op = "create"
    /\ last.arg.v = Null
    /\ ValueAccessor(store) = Null

\* The store was constructed with None and no get() or set() has changed it.
FreshEmpty ==
    /\ store.value = None
    /\ store.currentPromiseId = 0
    /\ \A n \in AwaiterIds : awaiters[n] = "none"

\* C15: a store constructed with None has an absent promise accessor until
\* the first get(); that get() throws a promise created by it, which the
\* promise accessor then exposes; a set of a plain value v that follows makes
\* get() return v.
C15_EmptyStoreArmsOnFirstGet ==
    [][ /\ FreshEmpty => PromiseAccessor(store) = NoPromise
        /\ (FreshEmpty /\ last'.op = "get")
              => /\ last'.id # 0
                 /\ last'.result = ThrowPromise(Aw(last'.id))
                 /\ PromiseAccessor(store') = Aw(last'.id)
                 /\ PromiseAccessor(store') # PromiseAccessor(store)
        /\ (last.op = "get" /\ last.id # 0 /\ last'.op = "set" /\ IsPlain(SetValue))
              => NextGet' = Return(SetValue) ]_vars

\* The first get() on a store constructed with None has thrown the promise
\* it created.
C15_Witness ==
    /\ last.op = "get"
    /\ last.id = 1
    /\ store.currentPromiseId = 0
    /\ PromiseAccessor(store) = Aw(1)
    /\ last.result = ThrowPromise(Aw(1))

\* The value get() returns, or undefined when get() returns none because the
\* store is empty, pending or holds an error.
HeldValueOrUndefined ==
    IF NextGet.tag = "return" THEN NextGet.v ELSE Undefined

\* C16: set(f) with an update function f changes the store state and invokes
\* the subscribers as set(f(p)) does, p being the held value, or undefined
\* when the store holds none because it is empty, pending or holds an error;
\* f may return a plain value, an in-flight operation or None.
C16_UpdateFunctionSeesHeldValue ==
    [][ (last'.op = "set" /\ last'.arg.kind = "function")
        => SetStep(last'.arg, ApplyFunction(last'.arg.v, HeldValueOrUndefined)) ]_vars

\* The step is a set() call or a settlement.
MutationStep == last'.op \in {"set", "fulfil", "reject"}

\* C17: a call of the unsubscribe function of l removes l and no other
\* listener; from then on, until subscribe(l) is called again, l stays out
\* of the set and no set() call and no settlement invokes it, while a
\* committing plain set still invokes every other subscriber once.
C17_UnsubscribedListenerNotInvoked ==
    [][ /\ last'.op = "unsubscribe"
              => /\ ~InSeq(last'.id, store'.listeners)
                 /\ \A m \in Listeners \ {last'.id} :
                       InSeq(m, store'.listeners) <=> InSeq(m, store.listeners)
        /\ \A l \in Listeners :
              ~InSeq(l, store.listeners)
                 => /\ MutationStep => last'.calls[l] = 0
                    /\ ~(last'.op = "subscribe" /\ last'.id = l)
                          => ~InSeq(l, store'.listeners)
        /\ PlainCommit => EachSubscriberOnce' ]_vars

\* A set() or settlement has invoked a subscribed listener and has not
\* invoked a listener whose unsubscribe function had been called.
C17_Witness ==
    /\ last.op \in {"set", "fulfil", "reject"}
    /\ \E l \in unsubs : ~InSeq(l, store.listeners) /\ last.calls[l] = 0
    /\ \E m \in Listeners : InSeq(m, store.listeners) /\ last.calls[m] = 1

\* An unsubscribe function of l has been called: l is out of the set since,
\* or the call before this state subscribed l again after such a call.
CalledBefore(l) ==
    \/ l \in unsubs /\ ~InSeq(l, store.listeners)
    \/ last.op = "subscribe" /\ last.id = l /\ last.arg.v = "removed"

\* C18: calling an unsubscribe function again after its first call leaves
\* the subscriber set unchanged, also when the same listener was subscribed
\* again between the two calls.
C18_RepeatedUnsubscribeIsHarmless ==
    [][ (last'.op = "unsubscribe" /\ CalledBefore(last'.id))
        => store'.listeners = store.listeners ]_vars

\* C18, amended: calling an unsubscribe function again after its first call
\* changes nothing in the store when the same listener was not subscribed
\* again between the two calls; when it was, the call removes the listener.
C18_RepeatedUnsubscribeUnlessResubscribed ==
    [][ last'.op = "unsubscribe"
        => /\ last'.arg.v = "removed" => store' = store
           /\ (last.op = "subscribe" /\ last.id = last'.id /\ last.arg.v = "removed")
                 => /\ ~InSeq(last'.id, store'.listeners)
                    /\ store'.listeners # store.listeners ]_vars

\* An unsubscribe function has been called again while another listener is
\* subscribed.
C18_Witness ==
    /\ last.op = "unsubscribe"
    /\ last.arg.v = "removed"
    /\ store.listeners # <<>>

\* C19: subscribing a listener that is already subscribed changes nothing, so
\* the subscriber set never has two entries of one listener; a set() call or
\* settlement invokes a listener at most once, a committing plain set every
\* subscribed one exactly once; and one call of an unsubscribe function of
\* the listener leaves no entry of it.
C19_DuplicateSubscribeCollapses ==
    [][ /\ (last'.op = "subscribe" /\ InSeq(last'.id, store.listeners))
              => store' = store
        /\ \A l \in Listeners : Entries(store'.listeners, l) <= 1
        /\ MutationStep => \A l \in Listeners : last'.calls[l] <= 1
        /\ PlainCommit
              => \A l \in Listeners :
                    InSeq(l, store.listeners) => last'.calls[l] = 1
        /\ last'.op = "unsubscribe"
              => Entries(store'.listeners, last'.id) = 0 ]_vars

\* subscribe() has been called with a listener that was subscribed already.
C19_Witness ==
    /\ last.op = "subscribe"
    /\ last.arg.v = "subscribed"
    /\ Entries(store.listeners, last.id) = 1

\* The step is a committing mutation: a plain set that commits, a set of
\* None, or the settlement of the most recently started async update.
CommittingMutation ==
    \/ PlainCommit
    \/ last'.op = "set" /\ SetValue = None
    \/ last'.op \in {"fulfil", "reject"} /\ last'.id = store.currentPromiseId

\* C20: every committing mutation invokes, within the call, each listener
\* subscribed at that moment exactly once and no other listener; every
\* other call (get, subscribe, unsubscribe, the start of an async update, a
\* set that does not commit, a stale settlement) invokes no listener.  So
\* the invocations of a listener that stays subscribed count the committing
\* mutations since it subscribed.
C20_OneInvocationPerCommittingMutation ==
    [][ \A l \in Listeners :
          last'.calls[l] =
              IF CommittingMutation /\ InSeq(l, store.listeners) THEN 1 ELSE 0 ]_vars

\* A set(None) has invoked two subscribers, once each.
C20_Witness ==
    /\ last.op = "set"
    /\ last.arg.v = None
    /\ \E l, m \in Listeners :
          l # m /\ last.calls[l] = 1 /\ last.calls[m] = 1

\* C21: reading the value accessor never fails and changes no state (it arms
\* no awaiter and leaves the promise accessor as it is); it returns the held
\* value when get() would return one, and None when the store is empty,
\* pending or holds an error.
C21_ValueAccessorIsPureRead ==
    [][ last'.op = "value"
        => /\ last'.result.tag = "return"
           /\ store' = store
           /\ awaiters' = awaiters
           /\ last'.result.v =
                 IF NextGet.tag = "return" THEN NextGet.v ELSE None ]_vars

\* C22: however often _use is called on a promise and however the calls
\* interleave with its settlement, _use has called then() on it exactly once
\* after any call (the first call does, no later one does again), and every
\* call that finds no outcome written on the promise throws the promise.
C22_ContinuationsAttachedOnce ==
    [][ /\ last'.op = "use"
              => /\ bridge'[last'.id].attached = 1
                 /\ bridge[last'.id].status = "unset"
                       => bridge[last'.id].attached = 0
                 /\ bridge[last'.id].status \notin {"fulfilled", "rejected"}
                       => last'.result = ThrowPromise(Operation(last'.id))
        /\ last'.op # "use"
              => \A k \in OpIds : bridge'[k].attached = bridge[k].attached ]_vars

\* _use has been called again on a promise that had settled before the
\* outcome was written on it.
C22_Witness ==
    /\ last.op = "use"
    /\ last.arg.v = "pending"
    /\ bridge[last.id].state = "fulfilled"
    /\ bridge[last.id].status = "pending"
    /\ bridge[last.id].attached = 1

\* C23: once _use has been called on a promise and the promise has settled,
\* every later call of _use on it returns the fulfilled result or throws
\* the rejection reason, and never throws the promise again.
C23_SettledOperationNeverSurfacedAgain ==
    [][ (/\ last'.op = "use"
         /\ bridge[last'.id].status # "unset"
         /\ bridge[last'.id].state # "pending")
        => last'.result =
              IF bridge[last'.id].state = "fulfilled"
              THEN Return(bridge[last'.id].result)
              ELSE ThrowError(bridge[last'.id].result) ]_vars

\* C23, amended: once a function that _use gave to then() has run on the
\* settled promise, every later call of _use on it returns the fulfilled
\* result or throws the rejection reason, whatever that value is, throws
\* the promise never again, and changes nothing on the promise.
C23_CachedOutcomeIsSurfaced ==
    [][ (last'.op = "use" /\ bridge[last'.id].ran > 0)
        => /\ last'.result =
                 IF bridge[last'.id].state = "fulfilled"
                 THEN Return(bridge[last'.id].result)
                 ELSE ThrowError(bridge[last'.id].result)
           /\ bridge' = bridge ]_vars

\* _use has returned the fulfilled result, an object, from the promise.
C23_Witness ==
    /\ last.op = "use"
    /\ last.arg.v = "fulfilled"
    /\ bridge[last.id].result \in Objects
    /\ last.result = Return(bridge[last.id].result)

\* C24: useSimpleStore subscribes once per mounted component and releases
\* the subscription when the component unmounts: the subscribers of the
\* store are the listeners of the mounted components, so their number is
\* the number of mounted components after any mount/unmount cycles.
C24_SubscribersAreMountedComponents ==
    /\ \A l \in Listeners : InSeq(l, store.listeners) <=> l \in mounted
    /\ Len(store.listeners) = Cardinality(mounted)

\* C25: in every reachable state the store does not hold a value (the value
\* accessor returning other than None) and an error (get() throwing an
\* error) at once.
C25_ValueAndErrorExclude ==
    ~(ValueAccessor(store) # None /\ NextGet.tag = "throw")

\* C26: in every reachable state a held value and an in-flight operation
\* exclude each other: while the promise accessor is present the value
\* accessor returns None, and while a value is held the promise accessor is
\* absent.
C26_ValueAndOperationExclude ==
    /\ PromiseAccessor(store) # NoPromise => ValueAccessor(store) = None
    /\ ValueAccessor(store) # None => PromiseAccessor(store) = NoPromise

\* set() has started an async update on a store that has subscribers.
C26_Witness ==
    /\ last.op = "set"
    /\ isPromise(last.arg.v)
    /\ PromiseAccessor(store) = Upd(store.currentPromiseId)
    /\ ValueAccessor(store) = None
    /\ store.listeners # <<>>

\* C27: starting an async update with set(), whatever the store held before
\* (a value, an error, an armed awaiter, another update in flight), leaves
\* the store pending on the new operation only: the value accessor returns
\* None, no error is held, no resolver is armed, the promise accessor
\* exposes a new operation and get() throws that operation.
C27_AsyncStartResetsStore ==
    [][ AsyncStart
        => /\ ValueAccessor(store') = None
           /\ store'.promiseError = Undefined
           /\ store'.resolve = 0
           /\ PromiseAccessor(store') = Upd(last'.id)
           /\ PromiseAccessor(store') # PromiseAccessor(store)
           /\ ops[last'.id] = "idle"
           /\ NextGet' = ThrowPromise(Upd(last'.id)) ]_vars

\* An async update has been started by an update function while an earlier
\* update was in flight.
C27_Witness ==
    /\ last.op = "set"
    /\ last.arg = [kind |-> "function", v |-> PromiseArg]
    /\ last.id = 2
    /\ ops[1] = "pending"
    /\ NextGet = ThrowPromise(Upd(2))

\* C28: currentPromiseId is 1 after a construction with a promise and 0
\* after any other; every set() that starts an async update adds exactly
\* one to it and no other step changes it, so it never decreases; and a
\* settlement handler whose captured id differs from it changes nothing in
\* the store.
C28_PromiseIdCountsAsyncStarts ==
    [][ /\ last.op = "create"
              => store.currentPromiseId = IF isPromise(last.arg.v) THEN 1 ELSE 0
        /\ store'.currentPromiseId =
              store.currentPromiseId + IF AsyncStart THEN 1 ELSE 0
        /\ (last'.op \in {"fulfil", "reject"} /\ last'.id # store.currentPromiseId)
              => store' = store ]_vars

\* A second async update has been started after the first one had settled.
C28_Witness ==
    /\ last.op = "set"
    /\ last.id = 2
    /\ store.currentPromiseId = 2
    /\ ops[1] \in {"fulfilled", "rejected"}

\* The store is empty with no operation in flight: no value is held, get()
\* would throw no error, and the promise accessor is absent.
EmptyAndIdle ==
    /\ ValueAccessor(store) = None
    /\ PromiseAccessor(store) = NoPromise
    /\ NextGet.tag # "throw"

C30_UnsubscribeDuringPass ==
    [][last'.op = "set" =>
        LET trace == pass'.trace
            beh == pass'.beh
            pre == store.listeners
        IN  /\ store'.value = last'.arg.v
            /\ \A l \in Listeners :
                  /\ Entries(trace, l) <= 1
                  /\ Entries(trace, l) = 1 => InSeq(l, pre)
            /\ \A l \in Listeners :
                  (/\ InSeq(l, pre)
                   /\ \A j \in DOMAIN trace : beh[trace[j]] # Unsubscribes(l))
                    => /\ Entries(trace, l) = 1
                       /\ InSeq(l, store'.listeners)
            /\ \A l \in Listeners :
                  (\E j \in DOMAIN trace :
                      /\ beh[trace[j]] = Unsubscribes(l)
                      /\ \A i \in 1..j : trace[i] # l)
                    => /\ Entries(trace, l) = 0
                       /\ ~InSeq(l, store'.listeners)]_vars

\* A pass has run in which an invoked listener removed another listener
\* before that listener's turn: the removed one was not invoked and is gone,
\* the remover is still subscribed.
C30_Witness ==
    /\ last.op = "set"
    /\ \E l, m \in Listeners :
          /\ l # m
          /\ pass.beh[m] = Unsubscribes(l)
          /\ InSeq(m, pass.trace)
          /\ ~InSeq(l, pass.trace)
          /\ l \in unsubs
          /\ ~InSeq(l, store.listeners)
          /\ InSeq(m, store.listeners)

\* C32: a commit is complete before any subscriber runs: a listener invoked
\* in the pass of a plain-value commit or of a fulfilment, nothing having
\* written the store since, gets the committed value from get() and no
\* promise from the promise accessor, and in the pass of a plain-value commit
\* that called a resolver the awaiter of that resolver is already resolved.
C32_CommitCompleteBeforeListeners ==
    [][(/\ last'.op = "call"
        /\ running.stack # <<>>
        /\ Top.fresh
        /\ Top.kind \in {"commit", "fulfil"})
        => /\ last'.arg.kind = "get" => last'.result = Return(Top.committed)
           /\ last'.arg.kind = "promise" => last'.result = ReturnPromise(NoPromise)
           /\ (Top.kind = "commit" /\ Top.resolved # 0)
                => awaiters[Top.resolved] = "resolved"]_vars

\* A listener has called get() in the pass of a plain-value commit that
\* called the resolver of an awaiter, and got the committed value.
C32_Witness ==
    /\ last.op = "call"
    /\ last.arg.kind = "get"
    /\ running.stack # <<>>
    /\ Top.fresh
    /\ Top.kind = "commit"
    /\ Top.resolved # 0
    /\ last.result = Return(Top.committed)

\* C33: when a listener has called set() with a committing value during a
\* pass, a nested pass has run inside it, and the outermost pass has passed
\* every entry, every subscriber has been invoked at least once since the
\* last write of the store that notifies.
C33_NestedSetReachesEverySubscriber ==
    (/\ Depth = 1
     /\ Top.pos >= Len(store.listeners)
     /\ running.nested)
        => \A l \in Listeners : InSeq(l, store.listeners) => l \in running.since

\* The outermost pass is about to return after a listener's set() has
\* committed and run a nested pass over two subscribers.
C33_Witness ==
    /\ Depth = 1
    /\ Top.pos = Len(store.listeners)
    /\ Len(store.listeners) = NumListeners
    /\ running.nested
    /\ last.op = "call"
    /\ store.value \in Objects

\* C31: the store holds an error only as the rejection reason of an async
\* update: what a listener throws during the pass of a fulfilment never
\* becomes the held error.
C31_HeldErrorIsRejectionReason ==
    store.promiseError # Undefined => store.promiseError \in Reasons

\* A pass is running and its forEach has no entry left to visit.
PassComplete == running.stack # <<>> /\ ~HasNext(Top, store.listeners)

\* C34 as stated: when a pass is complete, every listener that a callback of
\* the pass subscribed, and that is still subscribed, has been invoked by the
\* pass exactly once.
C34_SubscribedInPassInvokedOnce ==
    PassComplete =>
        \A m \in Top.within :
            InSeq(m, store.listeners) => Top.calls[m] = 1

\* C34: when a pass is complete, every subscriber has been invoked by the
\* pass exactly once since the pass started or, if a callback of the pass
\* subscribed it, since it was last subscribed; this holds for the pass in
\* which a callback subscribed the listener and for every later pass; and no
\* listener is ever invoked twice by one pass without having been removed
\* and subscribed again in between.
C34_InvokedOnceSinceSubscribed ==
    /\ PassComplete =>
          \A l \in Listeners :
              Top.turn[l] = IF InSeq(l, store.listeners) THEN "done" ELSE "out"
    /\ \A i \in DOMAIN running.stack, l \in Listeners :
          running.stack[i].turn[l] # "again"

\* A pass is complete in which a callback subscribed a listener that was not
\* subscribed, and the pass has invoked that listener once.
C34_Witness ==
    /\ PassComplete
    /\ \E m \in Top.within :
          /\ InSeq(m, store.listeners)
          /\ Top.turn[m] = "done"
          /\ Top.calls[m] = 1

\* C35: the resolver is armed only while no value is held and the promise
\* accessor returns the awaiter promise that this resolver fulfils.
C35_ResolverArmedOnlyWhileEmpty ==
    store.resolve # 0 =>
        /\ store.value = None
        /\ PromiseAccessor(store) = Aw(store.resolve)

\* C36: the status _use caches on a promise only moves from unset to pending
\* and from pending to fulfilled or rejected; once it is fulfilled or
\* rejected, the status, the cached value and the cached reason never change,
\* however often _use is called.
C36_BridgeStatusOnlyMovesForward ==
    [][\A k \in OpIds :
          /\ \/ bridge'[k].status = bridge[k].status
             \/ bridge[k].status = "unset" /\ bridge'[k].status = "pending"
             \/ /\ bridge[k].status = "pending"
                /\ bridge'[k].status \in {"fulfilled", "rejected"}
          /\ bridge[k].status \in {"fulfilled", "rejected"}
                => /\ bridge'[k].status = bridge[k].status
                   /\ bridge'[k].value = bridge[k].value
                   /\ bridge'[k].reason = bridge[k].reason]_vars

\* _use has been called on a promise whose cached status was fulfilled, and
\* the status and the cached value are as the continuation wrote them.
C36_Witness ==
    /\ last.op = "use"
    /\ last.arg = [kind |-> "status", v |-> "fulfilled"]
    /\ bridge[last.id].status = "fulfilled"
    /\ bridge[last.id].value = bridge[last.id].result
    /\ last.result = Return(bridge[last.id].value)

=============================================================================
